---- MODULE Spec2Model ----
(***************************************************************************)
(* rcop: conventional-commit header parser (src/src/header.rs, parse) and  *)
(* rule validator (src/src/header.rs, validate).                           *)
(*                                                                         *)
(* Strings are sequences of characters; a character is a one-character     *)
(* TLA+ string.  Spec lets header::parse run on every line of at most      *)
(* MaxLen characters over Chars; SpecValidate lets validate run on bounded *)
(* rule sets and on the default rule table.                                *)
(* SpecStream runs the stream-level parse of src/src/main.rs on every      *)
(* message of at most MaxStream characters, SpecTypes runs                 *)
(* parse_commit_types on every text of at most MaxText characters.         *)
(***************************************************************************)
EXTENDS Integers, Sequences, FiniteSets, TLC

VARIABLES line, pos, _type, _scope, _description, state, paren_count,
          valid_scope, pc, result,
          spec, commit_type, scope, description, found, vpc, vresult,
          stream, rest, acc, spc, sresult,
          text, items, commit_messages, tpc

parseVars == <<line, pos, _type, _scope, _description, state, paren_count,
               valid_scope, pc, result>>
validateVars == <<spec, commit_type, scope, description, found, vpc, vresult>>
streamVars == <<stream, rest, acc, spc, sresult>>
typesVars == <<text, items, commit_messages, tpc>>
vars == <<parseVars, validateVars, streamVars, typesVars>>

(***************************************************************************)
(* Bounds                                                                  *)
(***************************************************************************)
MaxLen == 5

MaxRules == 2

MaxRequired == 2

MaxStream == 5

MaxText == 5

(***************************************************************************)
(* Characters.  One representative per class the code distinguishes:       *)
(* "a" alphanumeric, "_", "," (one of , $ . / -, all handled alike by the  *)
(* scope arm), "(", ")", ":", " " (white space that is no line break),     *)
(* "\n", and "*" (none of the above, not white space).                     *)
(***************************************************************************)
Chars == {"a", "_", ",", "(", ")", ":", " ", "\n", "*"}

is_alphanumeric(c) == c \in {"a"}

is_whitespace(c) == c \in {" ", "\n", "\r"}

Lines == UNION {[1..n -> Chars] : n \in 0..MaxLen}

\* Two headers of the repository's documentation and tests that are longer
\* than MaxLen, letter runs shortened to one letter:
\* "feat( args ): value " and "name(args): value: another_value".
ExampleLines ==
    { <<"a", "(", " ", "a", " ", ")", ":", " ", "a", " ">>,
      <<"a", "(", "a", ")", ":", " ", "a", ":", " ", "a">> }

(***************************************************************************)
(* Character classes of the two accumulating arms of the match.            *)
(***************************************************************************)
\* Variant: the underscore is left out of the type characters.
TypeChar_NoUnderscore(c) == is_alphanumeric(c)

TypeChar(c) == is_alphanumeric(c) \/ c = "_"

\* Variant: the scope arm accepts no punctuation besides the underscore.
ScopeChar_NoPunctuation(c) == is_alphanumeric(c) \/ c = "_"

\* Variant: the scope arm accumulates any character that is no delimiter.
ScopeChar_AnyOther(c) == c \notin {"(", ")", ":"}

\* Variant: the scope arm also accumulates the space.
ScopeChar_WithSpace(c) ==
    is_alphanumeric(c) \/ c \in {"_", ",", "$", ".", "/", "-", " "}

ScopeChar(c) ==
    \/ is_alphanumeric(c)
    \/ c = "_"
    \/ c = ","
    \/ c = "$"
    \/ c = "."
    \/ c = "/"
    \/ c = "-"

(***************************************************************************)
(* str::trim: drop leading and trailing white space.                       *)
(***************************************************************************)
RECURSIVE trim_start(_)
trim_start(s) ==
    IF s # <<>> /\ is_whitespace(Head(s)) THEN trim_start(Tail(s)) ELSE s

RECURSIVE trim_end(_)
trim_end(s) ==
    IF s # <<>> /\ is_whitespace(s[Len(s)])
    THEN trim_end(SubSeq(s, 1, Len(s) - 1))
    ELSE s

\* Variant: trim_start in place of trim.
trim_StartOnly(s) == trim_start(s)

trim(s) == trim_end(trim_start(s))

(***************************************************************************)
(* Results.  Every error of parse and validate has ErrorKind::InvalidData; *)
(* msg tells the messages apart, phase is the {:?} of the state in the     *)
(* post-scan message.                                                      *)
(***************************************************************************)
NoResult == [kind |-> "None", errkind |-> "", msg |-> "", phase |-> "", value |-> <<>>]

Ok(v) == [kind |-> "Ok", errkind |-> "", msg |-> "", phase |-> "", value |-> v]

Err(m, ph) ==
    [kind |-> "Err", errkind |-> "InvalidData", msg |-> m, phase |-> ph, value |-> <<>>]

FailedType == Err("Failed to read the type from the header", "")

FailedScope == Err("Failed to retrieve the scope from the header", "")

FailedBody(st) == Err("Failed to read the body, ended up with the state", st)

(***************************************************************************)
(* header::parse                                                           *)
(***************************************************************************)
ParseIdle ==
    /\ line = <<>>
    /\ pos = 1
    /\ _type = <<>>
    /\ _scope = <<>>
    /\ _description = <<>>
    /\ state = "Type"
    /\ paren_count = 0
    /\ valid_scope = FALSE
    /\ pc = "idle"
    /\ result = NoResult

ValidateIdle ==
    /\ spec = <<>>
    /\ commit_type = <<>>
    /\ scope = <<>>
    /\ description = <<>>
    /\ found = 0
    /\ vpc = "idle"
    /\ vresult = NoResult

StreamIdle ==
    /\ stream = <<>>
    /\ rest = <<>>
    /\ acc = <<>>
    /\ spc = "idle"
    /\ sresult = NoResult

TypesIdle ==
    /\ text = <<>>
    /\ items = <<>>
    /\ commit_messages = <<>>
    /\ tpc = "idle"

Init ==
    /\ line \in Lines \cup ExampleLines
    /\ pos = 1
    /\ _type = <<>>
    /\ _scope = <<>>
    /\ _description = <<>>
    /\ state = "Type"
    /\ paren_count = 0
    /\ valid_scope = FALSE
    /\ pc = "scan"
    /\ result = NoResult
    /\ ValidateIdle
    /\ StreamIdle
    /\ TypesIdle

\* The match arm State::Type, for the character the iterator yields.
TypeStep ==
    /\ pc = "scan"
    /\ pos <= Len(line)
    /\ state = "Type"
    /\ pos' = pos + 1
    /\ LET c == line[pos] IN
       IF TypeChar(c) THEN
           /\ _type' = Append(_type, c)
           /\ UNCHANGED <<state, paren_count, pc, result>>
       ELSE IF c = "(" THEN
           /\ state' = "Scope"
           /\ paren_count' = paren_count + 1
           /\ UNCHANGED <<_type, pc, result>>
       ELSE IF c = ":" THEN
           /\ state' = "Description"
           /\ UNCHANGED <<_type, paren_count, pc, result>>
       ELSE
           /\ result' = FailedType
           /\ pc' = "done"
           /\ UNCHANGED <<_type, state, paren_count>>
    /\ UNCHANGED <<line, _scope, _description, valid_scope, validateVars, streamVars, typesVars>>

\* Variant of ScopeStep: the ':' arm does not look at valid_scope.
ScopeStep_NoCloseCheck ==
    /\ pc = "scan"
    /\ pos <= Len(line)
    /\ state = "Scope"
    /\ pos' = pos + 1
    /\ LET c == line[pos] IN
       IF ScopeChar(c) THEN
           /\ _scope' = Append(_scope, c)
           /\ UNCHANGED <<state, paren_count, valid_scope, pc, result>>
       ELSE IF c = ")" THEN
           /\ valid_scope' = TRUE
           /\ UNCHANGED <<_scope, state, paren_count, pc, result>>
       ELSE IF c = ":" THEN
           /\ paren_count' = paren_count - 1
           /\ state' = IF paren_count' = 0 THEN "Description" ELSE state
           /\ UNCHANGED <<_scope, valid_scope, pc, result>>
       ELSE
           /\ result' = FailedScope
           /\ pc' = "done"
           /\ UNCHANGED <<_scope, state, paren_count, valid_scope>>
    /\ UNCHANGED <<line, _type, _description, validateVars, streamVars, typesVars>>

\* The match arm State::Scope.
ScopeStep ==
    /\ pc = "scan"
    /\ pos <= Len(line)
    /\ state = "Scope"
    /\ pos' = pos + 1
    /\ LET c == line[pos] IN
       IF ScopeChar(c) THEN
           /\ _scope' = Append(_scope, c)
           /\ UNCHANGED <<state, paren_count, valid_scope, pc, result>>
       ELSE IF c = ")" THEN
           /\ valid_scope' = TRUE
           /\ UNCHANGED <<_scope, state, paren_count, pc, result>>
       ELSE IF c = ":" THEN
           /\ paren_count' = paren_count - 1
           /\ state' = IF paren_count' = 0 THEN "Description" ELSE state
           /\ IF ~valid_scope
              THEN result' = FailedScope /\ pc' = "done"
              ELSE UNCHANGED <<pc, result>>
           /\ UNCHANGED <<_scope, valid_scope>>
       ELSE
           /\ result' = FailedScope
           /\ pc' = "done"
           /\ UNCHANGED <<_scope, state, paren_count, valid_scope>>
    /\ UNCHANGED <<line, _type, _description, validateVars, streamVars, typesVars>>

\* Variant of DescriptionStep: a ':' inside the description is dropped.
DescriptionStep_SkipsColon ==
    /\ pc = "scan"
    /\ pos <= Len(line)
    /\ state = "Description"
    /\ pos' = pos + 1
    /\ LET c == line[pos] IN
       IF c = ":" THEN
           UNCHANGED <<_description, state, pc>>
       ELSE IF c # "\n" THEN
           /\ _description' = Append(_description, c)
           /\ UNCHANGED <<state, pc>>
       ELSE
           /\ state' = "Body"
           /\ pc' = "check"
           /\ UNCHANGED _description
    /\ UNCHANGED <<line, _type, _scope, paren_count, valid_scope, result, validateVars, streamVars, typesVars>>

\* Variant of DescriptionStep: the line break is accumulated like any other
\* character and the scan goes on.
DescriptionStep_NoLineBreak ==
    /\ pc = "scan"
    /\ pos <= Len(line)
    /\ state = "Description"
    /\ pos' = pos + 1
    /\ _description' = Append(_description, line[pos])
    /\ UNCHANGED <<state, pc>>
    /\ UNCHANGED <<line, _type, _scope, paren_count, valid_scope, result, validateVars, streamVars, typesVars>>

\* The match arm State::Description; a line break ends the loop (break).
DescriptionStep ==
    /\ pc = "scan"
    /\ pos <= Len(line)
    /\ state = "Description"
    /\ pos' = pos + 1
    /\ LET c == line[pos] IN
       IF c # "\n" THEN
           /\ _description' = Append(_description, c)
           /\ UNCHANGED <<state, pc>>
       ELSE
           /\ state' = "Body"
           /\ pc' = "check"
           /\ UNCHANGED _description
    /\ UNCHANGED <<line, _type, _scope, paren_count, valid_scope, result, validateVars, streamVars, typesVars>>

\* line.chars() is exhausted: the for loop ends.
Exhausted ==
    /\ pc = "scan"
    /\ pos > Len(line)
    /\ pc' = "check"
    /\ UNCHANGED <<line, pos, _type, _scope, _description, state, paren_count,
                   valid_scope, result, validateVars, streamVars, typesVars>>

\* Variant: the post-scan check asks for the Body phase only.
ReachedDescription_BodyOnly(st) == st = "Body"

\* The phases in which the post-scan check lets the call succeed.
ReachedDescription(st) == st = "Body" \/ st = "Description"

\* The post-scan check and the Ok return.
PostScan ==
    /\ pc = "check"
    /\ pc' = "done"
    /\ result' = IF ~ReachedDescription(state)
                 THEN FailedBody(state)
                 ELSE Ok(<<trim(_type), trim(_scope), trim(_description)>>)
    /\ UNCHANGED <<line, pos, _type, _scope, _description, state, paren_count,
                   valid_scope, validateVars, streamVars, typesVars>>

Next ==
    \/ TypeStep
    \/ ScopeStep
    \/ DescriptionStep
    \/ Exhausted
    \/ PostScan

Spec == Init /\ [][Next]_vars

(***************************************************************************)
(* Strings of the rule table and of the validator's inputs.                *)
(***************************************************************************)
sScope == <<"s", "c", "o", "p", "e">>

sDescription == <<"d", "e", "s", "c", "r", "i", "p", "t", "i", "o", "n">>

sField1 == <<"f", "i", "e", "l", "d", "1">>

sFeat == <<"f", "e", "a", "t">>

sFeatCaps == <<"F", "e", "a", "t">>

sFix == <<"f", "i", "x">>

sBuild == <<"b", "u", "i", "l", "d">>

sChore == <<"c", "h", "o", "r", "e">>

sCi == <<"c", "i">>

sDocs == <<"d", "o", "c", "s">>

sPerf == <<"p", "e", "r", "f">>

sRefactor == <<"r", "e", "f", "a", "c", "t", "o", "r">>

sRevert == <<"r", "e", "v", "e", "r", "t">>

sStyle == <<"s", "t", "y", "l", "e">>

sTest == <<"t", "e", "s", "t">>

sUnknown == <<"u", "n", "k", "n", "o", "w", "n", "_", "t", "y", "p", "e">>

CommitMessage(t, req) == [commit_type |-> t, required |-> req]

\* Variant of the default table: build also requires a scope.
default_commit_types_BuildScoped ==
    << CommitMessage(sFeat, <<sScope, sDescription>>),
       CommitMessage(sFix, <<sScope, sDescription>>),
       CommitMessage(sBuild, <<sScope, sDescription>>),
       CommitMessage(sChore, <<sDescription>>),
       CommitMessage(sCi, <<sDescription>>),
       CommitMessage(sDocs, <<sDescription>>),
       CommitMessage(sPerf, <<sDescription>>),
       CommitMessage(sRefactor, <<sDescription>>),
       CommitMessage(sRevert, <<sDescription>>),
       CommitMessage(sStyle, <<sDescription>>),
       CommitMessage(sTest, <<sDescription>>) >>

default_commit_types ==
    << CommitMessage(sFeat, <<sScope, sDescription>>),
       CommitMessage(sFix, <<sScope, sDescription>>),
       CommitMessage(sBuild, <<sDescription>>),
       CommitMessage(sChore, <<sDescription>>),
       CommitMessage(sCi, <<sDescription>>),
       CommitMessage(sDocs, <<sDescription>>),
       CommitMessage(sPerf, <<sDescription>>),
       CommitMessage(sRefactor, <<sDescription>>),
       CommitMessage(sRevert, <<sDescription>>),
       CommitMessage(sStyle, <<sDescription>>),
       CommitMessage(sTest, <<sDescription>>) >>

(***************************************************************************)
(* Inputs of validate: caller-supplied rule sets of at most MaxRules rules *)
(* with at most MaxRequired requirement names each, and the default table. *)
(***************************************************************************)
RequirementNames == {sScope, sDescription, sField1}

RuleTypes == {sFeat, sFeatCaps}

\* The required lists name no requirement twice (contains does not count).
RequiredLists ==
    {l \in UNION {[1..n -> RequirementNames] : n \in 0..MaxRequired} :
        \A i \in 1..Len(l) : \A j \in 1..Len(l) : l[i] = l[j] => i = j}

Rules == {CommitMessage(t, req) : t \in RuleTypes, req \in RequiredLists}

RuleSets == UNION {[1..n -> Rules] : n \in 0..MaxRules}

DefaultTypeNames ==
    {sFeat, sFix, sBuild, sChore, sCi, sDocs, sPerf, sRefactor, sRevert,
     sStyle, sTest}

(***************************************************************************)
(* validate                                                                *)
(***************************************************************************)
\* Variant: comparison that ignores the case of the letters.
to_lowercase(a) == [j \in 1..Len(a) |-> IF a[j] = "F" THEN "f" ELSE a[j]]

StrEq_IgnoreCase(a, b) == to_lowercase(a) = to_lowercase(b)

\* String equality (==): same characters, case included.
StrEq(a, b) == a = b

\* Variant: the last matching rule is taken.
Find_Last(rules, t) ==
    LET hits == {j \in 1..Len(rules) : StrEq(rules[j].commit_type, t)} IN
    IF hits = {} THEN 0 ELSE CHOOSE j \in hits : \A h \in hits : j >= h

\* spec.iter().find(|x| x.commit_type == commit_type): the index of the
\* first match, 0 for None.
Find(rules, t) ==
    LET hits == {j \in 1..Len(rules) : StrEq(rules[j].commit_type, t)} IN
    IF hits = {} THEN 0 ELSE CHOOSE j \in hits : \A h \in hits : j <= h

\* Vec::contains
contains(v, x) == \E j \in 1..Len(v) : StrEq(v[j], x)

is_empty(s) == Len(s) = 0

MissingScope == Err("Commit type requires a scope, but none given", "")

MissingDescription == Err("Commit type requires a description, but none given", "")

NotAllowed == Err("Commit type not allowed", "")

\* Variant: the description requirement is not checked.
CheckRequired_ScopeOnly(rule, s, d) ==
    IF contains(rule.required, sScope) /\ is_empty(s) THEN MissingScope
    ELSE Ok(TRUE)

\* Variant: the description requirement is checked before the scope one.
CheckRequired_DescriptionFirst(rule, s, d) ==
    IF contains(rule.required, sDescription) /\ is_empty(d) THEN MissingDescription
    ELSE IF contains(rule.required, sScope) /\ is_empty(s) THEN MissingScope
    ELSE Ok(TRUE)

\* Variant: every requirement name that is not "scope" asks for a description.
CheckRequired_AnyName(rule, s, d) ==
    IF contains(rule.required, sScope) /\ is_empty(s) THEN MissingScope
    ELSE IF (\E j \in 1..Len(rule.required) : rule.required[j] # sScope) /\ is_empty(d)
         THEN MissingDescription
    ELSE Ok(TRUE)

\* The checks of the Some(_type) arm, in the order of the code.
CheckRequired(rule, s, d) ==
    IF contains(rule.required, sScope) /\ is_empty(s) THEN MissingScope
    ELSE IF contains(rule.required, sDescription) /\ is_empty(d) THEN MissingDescription
    ELSE Ok(TRUE)

\* validate as a function of its arguments: the find, then the match.
validate(rules, t, s, d) ==
    LET f == Find(rules, t) IN
    IF f # 0 THEN CheckRequired(rules[f], s, d) ELSE NotAllowed

InitValidate ==
    /\ \/ /\ spec \in RuleSets
          /\ commit_type \in {sFeat, sFeatCaps, sUnknown}
       \/ /\ spec = default_commit_types
          /\ commit_type \in DefaultTypeNames \cup {sFeatCaps, sUnknown}
    /\ scope \in {<<>>, sScope}
    /\ description \in {<<>>, sDescription}
    /\ found = 0
    /\ vpc = "find"
    /\ vresult = NoResult
    /\ ParseIdle
    /\ StreamIdle
    /\ TypesIdle

\* let commit_type = spec.iter().find(..)
FindRule ==
    /\ vpc = "find"
    /\ found' = Find(spec, commit_type)
    /\ vpc' = "match"
    /\ UNCHANGED <<spec, commit_type, scope, description, vresult, parseVars, streamVars, typesVars>>

\* The arm Some(_type).
MatchSome ==
    /\ vpc = "match"
    /\ found # 0
    /\ vresult' = CheckRequired(spec[found], scope, description)
    /\ vpc' = "done"
    /\ UNCHANGED <<spec, commit_type, scope, description, found, parseVars, streamVars, typesVars>>

\* The arm None.
MatchNone ==
    /\ vpc = "match"
    /\ found = 0
    /\ vresult' = NotAllowed
    /\ vpc' = "done"
    /\ UNCHANGED <<spec, commit_type, scope, description, found, parseVars, streamVars, typesVars>>

NextValidate ==
    \/ FindRule
    \/ MatchSome
    \/ MatchNone

SpecValidate == InitValidate /\ [][NextValidate]_vars

(***************************************************************************)
(* main.rs: parse / parse_stream.  The message is a sequence of characters *)
(* (valid UTF-8, no read errors); BufRead::lines cuts it at the line       *)
(* breaks and drops the "\n" or "\r\n" that ends a line.                   *)
(***************************************************************************)
StreamChars == {"a", ":", "(", ")", " ", "\n", "\r"}

Streams == UNION {[1..n -> StreamChars] : n \in 0..MaxStream}

\* The line without the "\r" that stood before its "\n".
strip_cr(l) ==
    IF l # <<>> /\ l[Len(l)] = "\r" THEN SubSeq(l, 1, Len(l) - 1) ELSE l

\* BufRead::lines, all the lines the iterator yields.
RECURSIVE lines(_)
lines(s) ==
    IF s = <<>> THEN <<>>
    ELSE LET idx == {j \in 1..Len(s) : s[j] = "\n"} IN
         IF idx = {} THEN <<s>>
         ELSE LET nl == CHOOSE j \in idx : \A h \in idx : j <= h IN
              <<strip_cr(SubSeq(s, 1, nl - 1))>> \o lines(SubSeq(s, nl + 1, Len(s)))

FailedFirstLine == Err("Failed to read first line", "")

InitStream ==
    /\ stream \in Streams
    /\ rest = <<>>
    /\ acc = <<>>
    /\ spc = "first"
    /\ sresult = NoResult
    /\ ParseIdle
    /\ ValidateIdle
    /\ TypesIdle

\* lines.next(): no line is an error, else header::parse is called on it.
ReadFirstLine ==
    /\ spc = "first"
    /\ LET ls == lines(stream) IN
       IF ls = <<>> THEN
           /\ sresult' = FailedFirstLine
           /\ spc' = "done"
           /\ UNCHANGED <<line, pc, rest>>
       ELSE
           /\ line' = Head(ls)
           /\ rest' = Tail(ls)
           /\ pc' = "scan"
           /\ spc' = "header"
           /\ UNCHANGED sresult
    /\ UNCHANGED <<pos, _type, _scope, _description, state, paren_count,
                   valid_scope, result, stream, acc, validateVars, typesVars>>

\* header::parse(&first_line)?: an error is returned as it is.
HeaderReturn ==
    /\ spc = "header"
    /\ pc = "done"
    /\ IF result.kind = "Err"
       THEN sresult' = result /\ spc' = "done"
       ELSE spc' = "fold" /\ UNCHANGED sresult
    /\ UNCHANGED <<stream, rest, acc, parseVars, validateVars, typesVars>>

\* Variant of FoldLine: the line break is not pushed after the line.
FoldLine_NoLineBreak ==
    /\ spc = "fold"
    /\ rest # <<>>
    /\ acc' = acc \o Head(rest)
    /\ rest' = Tail(rest)
    /\ UNCHANGED <<stream, spc, sresult, parseVars, validateVars, typesVars>>

\* One step of lines.fold: the line, then a line break.
FoldLine ==
    /\ spc = "fold"
    /\ rest # <<>>
    /\ acc' = (acc \o Head(rest)) \o <<"\n">>
    /\ rest' = Tail(rest)
    /\ UNCHANGED <<stream, spc, sresult, parseVars, validateVars, typesVars>>

\* The Ok return of parse_stream.
StreamReturn ==
    /\ spc = "fold"
    /\ rest = <<>>
    /\ sresult' = Ok(<<result.value[1], result.value[2], result.value[3], trim(acc)>>)
    /\ spc' = "done"
    /\ UNCHANGED <<stream, rest, acc, parseVars, validateVars, typesVars>>

NextStream ==
    \/ ReadFirstLine
    \/ TypeStep
    \/ ScopeStep
    \/ DescriptionStep
    \/ Exhausted
    \/ PostScan
    \/ HeaderReturn
    \/ FoldLine
    \/ StreamReturn

SpecStream == InitStream /\ [][NextStream]_vars

(***************************************************************************)
(* main.rs: parse_commit_types                                             *)
(***************************************************************************)
TextChars == {"a", "b", "=", ",", ";"}

Texts == UNION {[1..n -> TextChars] : n \in 0..MaxText}

\* str::split on a one-character pattern: the pieces between the
\* separators, empty ones included ("" gives one empty piece).
RECURSIVE split(_, _)
split(s, sep) ==
    LET idx == {j \in 1..Len(s) : s[j] = sep} IN
    IF idx = {} THEN <<s>>
    ELSE LET k == CHOOSE j \in idx : \A h \in idx : j <= h IN
         <<SubSeq(s, 1, k - 1)>> \o split(SubSeq(s, k + 1, Len(s)), sep)

\* Variant: the empty requirement names are kept.
RequiredOf_KeepEmpty(part) == split(part, ",")

\* part.split(",") .filter(|s| !s.is_empty()) .collect()
RequiredOf(part) == SelectSeq(split(part, ","), LAMBDA x : ~is_empty(x))

InitTypes ==
    /\ text \in Texts
    /\ items = <<>>
    /\ commit_messages = <<>>
    /\ tpc = "start"
    /\ ParseIdle
    /\ ValidateIdle
    /\ StreamIdle

\* The empty text returns the empty vector, else the text is split at ';'.
TypesStart ==
    /\ tpc = "start"
    /\ IF is_empty(text)
       THEN tpc' = "done" /\ UNCHANGED items
       ELSE tpc' = "loop" /\ items' = split(text, ";")
    /\ UNCHANGED <<text, commit_messages, parseVars, validateVars, streamVars>>

\* The body of the for loop, for the next item.
TypesItem ==
    /\ tpc = "loop"
    /\ items # <<>>
    /\ LET parts == split(Head(items), "=")
           part == IF Len(parts) >= 2 THEN parts[2] ELSE <<>>
       IN  commit_messages' =
               Append(commit_messages, CommitMessage(parts[1], RequiredOf(part)))
    /\ items' = Tail(items)
    /\ UNCHANGED <<text, tpc, parseVars, validateVars, streamVars>>

\* The loop is over: commit_messages is returned.
TypesReturn ==
    /\ tpc = "loop"
    /\ items = <<>>
    /\ tpc' = "done"
    /\ UNCHANGED <<text, items, commit_messages, parseVars, validateVars, streamVars>>

NextTypes ==
    \/ TypesStart
    \/ TypesItem
    \/ TypesReturn

SpecTypes == InitTypes /\ [][NextTypes]_vars

(***************************************************************************)
(* Vocabulary of the properties of header::parse.  The character sets and  *)
(* Stripped are written out from the grammar, independently of the         *)
(* operators the actions use.                                              *)
(***************************************************************************)
TypeSet == {"a", "_"}

ScopeSet == {"a", "_", ",", "$", ".", "/", "-"}

WhiteSpace == {" ", "\n", "\r"}

AllIn(s, lo, hi, S) == \A j \in lo..hi : s[j] \in S

NoneIn(s, lo, hi, S) == \A j \in lo..hi : s[j] \notin S

\* s without its leading and trailing white space.
Stripped(s) ==
    LET idx == {j \in 1..Len(s) : s[j] \notin WhiteSpace} IN
    IF idx = {} THEN <<>>
    ELSE SubSeq(s, CHOOSE j \in idx : \A h \in idx : j <= h,
                   CHOOSE j \in idx : \A h \in idx : j >= h)

NoSurroundingWhitespace(s) ==
    s = <<>> \/ (s[1] \notin WhiteSpace /\ s[Len(s)] \notin WhiteSpace)

Returned == pc = "done"

Accepted == pc = "done" /\ result.kind = "Ok"

\* line is TYPE ':' DESC with the ':' at index k.
PlainForm(k) ==
    /\ line[k] = ":"
    /\ AllIn(line, 1, k - 1, TypeSet)
    /\ NoneIn(line, k + 1, Len(line), {"\n"})

\* line is TYPE '(' SCOPE ')' ':' DESC with '(' at k and ')' at m.
ScopedForm(k, m) ==
    /\ k < m
    /\ m < Len(line)
    /\ line[k] = "("
    /\ line[m] = ")"
    /\ line[m + 1] = ":"
    /\ AllIn(line, 1, k - 1, TypeSet)
    /\ AllIn(line, k + 1, m - 1, ScopeSet)
    /\ NoneIn(line, m + 2, Len(line), {"\n"})

\* C1: every line TYPE ':' DESC (TYPE alphanumeric/underscore, DESC without
\* a line break) is accepted with type = TYPE, scope = "" and
\* description = DESC without its surrounding white space.
C1_PlainHeaderParses ==
    Returned =>
        \A k \in 1..Len(line) :
            PlainForm(k) =>
                result = Ok(<<SubSeq(line, 1, k - 1), <<>>,
                              Stripped(SubSeq(line, k + 1, Len(line)))>>)

C1_Witness ==
    /\ Accepted
    /\ \E k \in 2..Len(line) :
           /\ PlainForm(k)
           /\ result.value[3] # <<>>
           /\ result.value[3] # SubSeq(line, k + 1, Len(line))

\* C2: every line TYPE '(' SCOPE ')' ':' DESC (SCOPE over alphanumerics and
\* _ , $ . / -, possibly empty) is accepted with exactly SCOPE as the scope,
\* TYPE as the type and the stripped DESC as the description.
C2_ScopedHeaderParses ==
    Returned =>
        \A k \in 1..Len(line) : \A m \in 1..Len(line) :
            ScopedForm(k, m) =>
                result = Ok(<<SubSeq(line, 1, k - 1),
                              SubSeq(line, k + 1, m - 1),
                              Stripped(SubSeq(line, m + 2, Len(line)))>>)

C2_Witness ==
    /\ Accepted
    /\ \E k \in 1..Len(line) : \E m \in 1..Len(line) :
           /\ ScopedForm(k, m)
           /\ m > k + 1
           /\ "," \in {line[j] : j \in k + 1..m - 1}
    /\ result.value[2] # <<>>

\* A header with a scope section: a '(' follows the type characters.
HasScopeSection ==
    \E k \in 1..Len(line) : line[k] = "(" /\ AllIn(line, 1, k - 1, TypeSet)

\* C3: a header with a scope section is accepted only if the scope content
\* ends with ')' immediately followed by ':', with a single parenthesized
\* group: nothing stands between the closing ')' and the ':'.
C3_ScopeEndsWithParenColon ==
    (Accepted /\ HasScopeSection) =>
        \E k \in 1..Len(line) : \E m \in 1..Len(line) :
            /\ k < m
            /\ m < Len(line)
            /\ line[k] = "("
            /\ line[m] = ")"
            /\ line[m + 1] = ":"
            /\ NoneIn(line, 1, m - 1, {")", ":"})
            /\ NoneIn(line, k + 1, m - 1, {"("})

\* C4: parse succeeds exactly when the scan ends in the Description or Body
\* phase; when the input is exhausted in the Type or Scope phase the call
\* returns the InvalidData error that names that phase, and no triple.
C4_ExhaustedStep ==
    /\ pc = "check" =>
           /\ pc' = "done"
           /\ IF state \in {"Type", "Scope"}
              THEN result' = Err("Failed to read the body, ended up with the state", state)
              ELSE result'.kind = "Ok"
    /\ (result'.kind = "Ok" /\ result.kind # "Ok") =>
           (pc = "check" /\ state \in {"Description", "Body"})

C4_ExhaustedLines ==
    Returned =>
        /\ AllIn(line, 1, Len(line), TypeSet) =>
               /\ result = Err("Failed to read the body, ended up with the state", "Type")
               /\ result.value = <<>>
        /\ (\E k \in 1..Len(line) :
               /\ line[k] = "("
               /\ AllIn(line, 1, k - 1, TypeSet)
               /\ AllIn(line, k + 1, Len(line), ScopeSet \cup {")"})) =>
               /\ result = Err("Failed to read the body, ended up with the state", "Scope")
               /\ result.value = <<>>

C4_SuccessIffDescriptionReached ==
    [][C4_ExhaustedStep]_vars /\ []C4_ExhaustedLines

C4_Witness ==
    /\ Returned
    /\ Len(line) >= 4
    /\ result.phase = "Scope"
    /\ _scope # <<>>
    /\ valid_scope

\* The first ':' of the line is at index m, inside a scope opened at k that
\* has no ')' so far.
UnclosedScopeColon(k, m) ==
    /\ k < m
    /\ line[k] = "("
    /\ line[m] = ":"
    /\ AllIn(line, 1, k - 1, TypeSet)
    /\ AllIn(line, k + 1, m - 1, ScopeSet)

\* C5: a ':' read in the Scope phase before any ')' makes parse fail with
\* the 'failed to retrieve the scope' error; no header is accepted through
\* a scope that was opened with '(' and not closed with ')'.
C5_UnclosedScopeFails ==
    /\ Returned =>
           \A k \in 1..Len(line) : \A m \in 1..Len(line) :
               UnclosedScopeColon(k, m) =>
                   result = Err("Failed to retrieve the scope from the header", "")
    /\ (Accepted /\ HasScopeSection) =>
           \E k \in 1..Len(line) : \E m \in 1..Len(line) :
               /\ k < m
               /\ line[k] = "("
               /\ line[m] = ")"
               /\ NoneIn(line, 1, m, {":"})

C5_Witness ==
    /\ Returned
    /\ result.kind = "Err"
    /\ \E k \in 1..Len(line) : \E m \in 1..Len(line) :
           UnclosedScopeColon(k, m) /\ m > k + 1 /\ m < Len(line)

\* The scan meets, in the Type phase, a character at k outside the phase's set.
BadTypeChar(k) ==
    /\ AllIn(line, 1, k - 1, TypeSet)
    /\ line[k] \notin TypeSet \cup {"(", ":"}

\* The scan meets, in the Scope phase opened at k, a character at m outside
\* the phase's set.
BadScopeChar(k, m) ==
    /\ k < m
    /\ line[k] = "("
    /\ AllIn(line, 1, k - 1, TypeSet)
    /\ AllIn(line, k + 1, m - 1, ScopeSet \cup {")"})
    /\ line[m] \notin ScopeSet \cup {")", ":"}

\* C6: parse fails with an InvalidData error at the first character outside
\* the current phase's allowed set, without reading any further character:
\* with the type message in the Type phase, with the scope message in the
\* Scope phase.
C6_IllegalCharacterFails ==
    Returned =>
        /\ \A k \in 1..Len(line) :
               BadTypeChar(k) =>
                   /\ result = Err("Failed to read the type from the header", "")
                   /\ result.errkind = "InvalidData"
                   /\ pos = k + 1
        /\ \A k \in 1..Len(line) : \A m \in 1..Len(line) :
               BadScopeChar(k, m) =>
                   /\ result = Err("Failed to retrieve the scope from the header", "")
                   /\ result.errkind = "InvalidData"
                   /\ pos = m + 1

C6_Witness ==
    /\ Returned
    /\ result.kind = "Err"
    /\ \E k \in 1..Len(line) : \E m \in 1..Len(line) :
           /\ BadScopeChar(k, m)
           /\ line[m] = "("
           /\ m < Len(line)
           /\ \E j \in k + 1..m - 1 : line[j] = ")"

\* C10: no field of an accepted header has leading or trailing white space.
C10_FieldsTrimmed ==
    Accepted =>
        /\ NoSurroundingWhitespace(result.value[1])
        /\ NoSurroundingWhitespace(result.value[2])
        /\ NoSurroundingWhitespace(result.value[3])

C10_Witness ==
    /\ Accepted
    /\ Len(_description) >= 3
    /\ _description[1] \in WhiteSpace
    /\ _description[Len(_description)] \in WhiteSpace
    /\ result.value[3] # <<>>

(***************************************************************************)
(* Vocabulary of the properties of validate.                               *)
(***************************************************************************)
Validated == vpc = "done"

Elements(v) == {v[j] : j \in 1..Len(v)}

\* Rule j is the first rule of the rule set whose type is the parsed type.
FirstMatch(j) ==
    /\ spec[j].commit_type = commit_type
    /\ \A h \in 1..j - 1 : spec[h].commit_type # commit_type

Satisfied(j) ==
    /\ (sScope \notin Elements(spec[j].required) \/ scope # <<>>)
    /\ (sDescription \notin Elements(spec[j].required) \/ description # <<>>)

\* C7: validate returns Ok(true) exactly when some rule has the parsed type
\* and the first such rule has every required field non-empty; otherwise it
\* returns an InvalidData error, and never Ok(false).
C7_ValidateOkIffSatisfied ==
    Validated =>
        /\ (vresult = Ok(TRUE)) <=>
               (\E j \in 1..Len(spec) : FirstMatch(j) /\ Satisfied(j))
        /\ vresult # Ok(TRUE) =>
               (vresult.kind = "Err" /\ vresult.errkind = "InvalidData")
        /\ vresult # Ok(FALSE)

C7_Witness ==
    /\ Validated
    /\ vresult.kind = "Err"
    /\ Len(spec) = 2
    /\ FirstMatch(1)
    /\ ~Satisfied(1)
    /\ spec[2].commit_type = commit_type
    /\ Satisfied(2)
    /\ scope # <<>>

\* C8: validate fails with 'Commit type not allowed' exactly when no rule
\* has a type equal, character for character and case included, to the
\* parsed type; with the empty rule set it always fails that way.
C8_NotAllowedIffNoExactMatch ==
    Validated =>
        /\ (vresult = Err("Commit type not allowed", "")) <=>
               (\A j \in 1..Len(spec) : spec[j].commit_type # commit_type)
        /\ spec = <<>> => vresult = Err("Commit type not allowed", "")

C8_Witness ==
    /\ Validated
    /\ vresult.msg = "Commit type not allowed"
    /\ commit_type = <<"F", "e", "a", "t">>
    /\ spec # <<>>
    /\ \A j \in 1..Len(spec) : spec[j].commit_type = <<"f", "e", "a", "t">>

ScopedTypes == {sFeat, sFix}

UnscopedTypes ==
    {sBuild, sChore, sCi, sDocs, sPerf, sRefactor, sRevert, sStyle, sTest}

\* C9: under the default rule set feat and fix pass exactly with a scope and
\* a description, the nine other default types exactly with a description
\* (with or without scope), and every other type is rejected.
C9_DefaultRules ==
    (Validated /\ Len(spec) = 11) =>
        (vresult.kind = "Ok") <=>
            \/ commit_type \in ScopedTypes /\ scope # <<>> /\ description # <<>>
            \/ commit_type \in UnscopedTypes /\ description # <<>>

C9_Witness ==
    /\ Validated
    /\ Len(spec) = 11
    /\ commit_type = sBuild
    /\ scope = <<>>
    /\ vresult = Ok(TRUE)

\* line is TYPE '(' CONTENT ')' ':' DESC where CONTENT is scope characters
\* with spaces around them ('(' at k, ')' at m, at least one space).
PaddedScopedForm(k, m) ==
    /\ k < m
    /\ m < Len(line)
    /\ line[k] = "("
    /\ line[m] = ")"
    /\ line[m + 1] = ":"
    /\ AllIn(line, 1, k - 1, TypeSet)
    /\ AllIn(line, k + 1, m - 1, ScopeSet \cup {" "})
    /\ \E j \in k + 1..m - 1 : line[j] = " "
    /\ Stripped(SubSeq(line, k + 1, m - 1)) \in Seq(ScopeSet)
    /\ NoneIn(line, m + 2, Len(line), {"\n"})

\* C11 as stated: a header whose scope content is surrounded by spaces is
\* accepted and the scope is returned trimmed ("feat( args ): value " gives
\* ("feat", "args", "value")).
C11_PaddedScopeAccepted ==
    Returned =>
        \A k \in 1..Len(line) : \A m \in 1..Len(line) :
            PaddedScopedForm(k, m) =>
                result = Ok(<<SubSeq(line, 1, k - 1),
                              Stripped(SubSeq(line, k + 1, m - 1)),
                              Stripped(SubSeq(line, m + 2, Len(line)))>>)

\* C11 amended: a header whose scope content has a space inside the
\* parentheses is rejected with the 'failed to retrieve the scope' error;
\* no scope is returned.
C11_PaddedScopeRejected ==
    Returned =>
        \A k \in 1..Len(line) : \A m \in 1..Len(line) :
            PaddedScopedForm(k, m) =>
                result = Err("Failed to retrieve the scope from the header", "")

C11_Witness ==
    /\ Returned
    /\ line = <<"a", "(", " ", "a", " ", ")", ":", " ", "a", " ">>
    /\ PaddedScopedForm(2, 6)
    /\ result.kind = "Err"

\* C12: with several rules of the same type, only the first one decides:
\* whatever rule stands in a place after the first match, the outcome of
\* validate is the same.
C12_FirstMatchWins ==
    Validated =>
        \A j \in 1..Len(spec) :
            FirstMatch(j) =>
                \A h \in j + 1..Len(spec) : \A r \in Rules :
                    validate([spec EXCEPT ![h] = r], commit_type, scope,
                             description) = vresult

C12_Witness ==
    /\ Validated
    /\ Len(spec) = 2
    /\ FirstMatch(1)
    /\ spec[2].commit_type = commit_type
    /\ Satisfied(1)
    /\ ~Satisfied(2)
    /\ vresult = Ok(TRUE)

\* C18: when the matched rule requires scope and description and both
\* fields are empty, validate reports the missing scope, whatever the order
\* of the two names in the rule's required list.
C18_ScopeCheckedFirst ==
    Validated =>
        \A j \in 1..Len(spec) :
            (/\ FirstMatch(j)
             /\ {sScope, sDescription} \subseteq Elements(spec[j].required)
             /\ scope = <<>>
             /\ description = <<>>) =>
                vresult = Err("Commit type requires a scope, but none given", "")

C18_Witness ==
    /\ Validated
    /\ Len(spec) >= 1
    /\ FirstMatch(1)
    /\ spec[1].required = <<sDescription, sScope>>
    /\ scope = <<>>
    /\ description = <<>>
    /\ vresult.kind = "Err"

\* The rule set without the requirement names other than "scope" and
\* "description".
KnownOnly(rules) ==
    [j \in 1..Len(rules) |->
        [commit_type |-> rules[j].commit_type,
         required |-> SelectSeq(rules[j].required,
                                LAMBDA x : x \in {sScope, sDescription})]]

\* C19: requirement names other than "scope" and "description" have no
\* effect: validate gives the same result on the rule set with those names
\* removed, hence on any two rule sets that differ only in such names.
C19_OtherNamesIgnored ==
    Validated =>
        vresult = validate(KnownOnly(spec), commit_type, scope, description)

C19_Witness ==
    /\ Validated
    /\ Len(spec) >= 1
    /\ FirstMatch(1)
    /\ spec[1].required = <<sField1>>
    /\ scope = <<>>
    /\ description = <<>>
    /\ vresult = Ok(TRUE)

Rank(st) ==
    CASE st = "Type" -> 1
      [] st = "Scope" -> 2
      [] st = "Description" -> 3
      [] st = "Body" -> 4

\* A step of a call that goes on: it does not return an error.
GoesOn == result'.kind # "Err"

\* C15: the phase only moves forward, Type -> Scope -> Description -> Body.
\* Scope is entered only from Type on '(', Description only on ':' (from
\* Type, or from Scope after a ')' was read), Body only from Description on
\* a line break.  (Description is the phase of a call that goes on scanning:
\* the step that returns the scope error on an unclosed ':' ends the call.)
C15_Step ==
    /\ Rank(state') >= Rank(state)
    /\ (state' = "Scope" /\ state # "Scope") =>
           (state = "Type" /\ pos <= Len(line) /\ line[pos] = "(")
    /\ (state' = "Description" /\ state # "Description" /\ GoesOn) =>
           /\ pos <= Len(line)
           /\ line[pos] = ":"
           /\ \/ state = "Type"
              \/ /\ state = "Scope"
                 /\ \E j \in 1..pos - 1 : line[j] = ")"
    /\ (state' = "Body" /\ state # "Body") =>
           (state = "Description" /\ pos <= Len(line) /\ line[pos] = "\n")

C15_PhasesMoveForward == [][C15_Step]_vars

C15_Witness ==
    /\ Accepted
    /\ state = "Body"
    /\ _scope # <<>>
    /\ valid_scope

\* The index of the first ':' of the line, 0 when there is none.
FirstColon ==
    LET idx == {j \in 1..Len(line) : line[j] = ":"} IN
    IF idx = {} THEN 0 ELSE CHOOSE j \in idx : \A h \in idx : j <= h

\* The index of the first line break after the first ':', Len(line) + 1
\* when there is none.
DescriptionEnd ==
    LET idx == {j \in FirstColon + 1..Len(line) : line[j] = "\n"} IN
    IF idx = {} THEN Len(line) + 1 ELSE CHOOSE j \in idx : \A h \in idx : j <= h

\* C16: once the Description phase is reached the call cannot fail: every
\* character up to the first line break, whatever it is, is appended to the
\* description, and the call returns Ok with that text, stripped.
C16_Step ==
    /\ (pc = "scan" /\ state = "Description") =>
           /\ result'.kind # "Err"
           /\ (pos <= Len(line) /\ line[pos] # "\n") =>
                  /\ _description' = Append(_description, line[pos])
                  /\ state' = "Description"
    /\ (pc = "check" /\ state \in {"Description", "Body"}) => result'.kind = "Ok"

C16_Returned ==
    /\ (Returned /\ result.kind = "Err") => _description = <<>>
    /\ Accepted =>
           result.value[3] =
               Stripped(SubSeq(line, FirstColon + 1, DescriptionEnd - 1))

C16_DescriptionNeverFails == [][C16_Step]_vars /\ []C16_Returned

C16_Witness ==
    /\ Accepted
    /\ line = <<"a", "(", "a", ")", ":", " ", "a", ":", " ", "a">>
    /\ result.value[3] = <<"a", ":", " ", "a">>

\* What a header that ends with the line break p[Len(p)] parses to.
HeadResult(p) ==
    LET colons == {j \in 1..Len(p) : p[j] = ":"}
        c == CHOOSE j \in colons : \A h \in colons : j <= h
        nontype == {j \in 1..Len(p) : p[j] \notin TypeSet}
        t == CHOOSE j \in nontype : \A h \in nontype : j <= h
    IN  <<SubSeq(p, 1, t - 1),
          IF p[t] = "("
          THEN SelectSeq(SubSeq(p, t + 1, c - 1), LAMBDA x : x \in ScopeSet)
          ELSE <<>>,
          Stripped(SubSeq(p, c + 1, Len(p) - 1))>>

\* C17: when a line break is met in the Description phase, the result is
\* determined by the characters up to that line break: nothing after it is
\* read, and the triple is a function of that prefix of the line.
C17_ResultIgnoresTextAfterLineBreak ==
    (Accepted /\ DescriptionEnd <= Len(line)) =>
        /\ pos = DescriptionEnd + 1
        /\ result = Ok(HeadResult(SubSeq(line, 1, DescriptionEnd)))

C17_Witness ==
    /\ Accepted
    /\ DescriptionEnd + 2 <= Len(line)
    /\ line[Len(line)] = "*"
    /\ line[Len(line) - 1] = "("
    /\ result.value[3] # <<>>

\* C20: on success the type holds only alphanumerics and underscores, the
\* scope only alphanumerics and _ , $ . / -; both may be empty: ":text" and
\* "(): text" are accepted with the type "".
C20_FieldAlphabets ==
    /\ Accepted =>
           /\ result.value[1] \in Seq(TypeSet)
           /\ result.value[2] \in Seq(ScopeSet)
    /\ (Returned /\ Len(line) >= 1 /\ line[1] = ":") =>
           (Accepted /\ result.value[1] = <<>> /\ result.value[2] = <<>>)
    /\ (Returned /\ Len(line) >= 3 /\ SubSeq(line, 1, 3) = <<"(", ")", ":">>) =>
           (Accepted /\ result.value[1] = <<>> /\ result.value[2] = <<>>)

C20_Witness ==
    /\ Accepted
    /\ Len(line) = 5
    /\ SubSeq(line, 1, 3) = <<"(", ")", ":">>
    /\ result.value = <<<<>>, <<>>, <<"a">>>>

(***************************************************************************)
(* Vocabulary of the properties of the stream-level parse.                 *)
(***************************************************************************)
StreamReturned == spc = "done"

\* The index of the first line break of the stream, Len(stream) + 1 when
\* there is none.
FirstLineEnd ==
    LET idx == {j \in 1..Len(stream) : stream[j] = "\n"} IN
    IF idx = {} THEN Len(stream) + 1 ELSE CHOOSE j \in idx : \A h \in idx : j <= h

\* s without the "\r" of every "\r\n".
RECURSIVE DropCR(_)
DropCR(s) ==
    IF s = <<>> THEN <<>>
    ELSE IF Len(s) >= 2 /\ s[1] = "\r" /\ s[2] = "\n" THEN DropCR(Tail(s))
    ELSE <<Head(s)>> \o DropCR(Tail(s))

\* The first line without its line terminator ("\n" or "\r\n").
FirstLineText ==
    LET raw == SubSeq(stream, 1, FirstLineEnd - 1) IN
    IF FirstLineEnd <= Len(stream) /\ raw # <<>> /\ raw[Len(raw)] = "\r"
    THEN SubSeq(raw, 1, Len(raw) - 1)
    ELSE raw

\* The remaining lines joined by line breaks, stripped.
RemainingBody == Stripped(DropCR(SubSeq(stream, FirstLineEnd + 1, Len(stream))))

\* C13: the stream-level parse hands the first line only to header::parse
\* and returns its three fields plus the remaining lines joined by line
\* breaks and stripped; without a first line, or when the first line fails
\* to parse, it returns an InvalidData error and no body.
C13_StreamParse ==
    StreamReturned =>
        /\ stream = <<>> =>
               /\ sresult = Err("Failed to read first line", "")
               /\ pc = "idle"
        /\ stream # <<>> =>
               /\ line = FirstLineText
               /\ pc = "done"
               /\ result.kind = "Err" =>
                      /\ sresult = result
                      /\ sresult.errkind = "InvalidData"
                      /\ sresult.value = <<>>
               /\ result.kind = "Ok" =>
                      sresult = Ok(result.value \o <<RemainingBody>>)

C13_Witness ==
    /\ StreamReturned
    /\ sresult.kind = "Ok"
    /\ Len(sresult.value[4]) = 3
    /\ sresult.value[4][2] = "\n"
    /\ Len(stream) >= FirstLineEnd + 3

(***************************************************************************)
(* Vocabulary of the properties of parse_commit_types.                     *)
(***************************************************************************)
TypesReturned == tpc = "done"

\* The k-th of the pieces of s between the occurrences of sep.
Piece(s, sep, k) ==
    LET idx == {j \in 1..Len(s) : s[j] = sep}
        at(i) == CHOOSE j \in idx : Cardinality({h \in idx : h < j}) = i - 1
        lo == IF k = 1 THEN 1 ELSE at(k - 1) + 1
        hi == IF k = Cardinality(idx) + 1 THEN Len(s) ELSE at(k) - 1
    IN  SubSeq(s, lo, hi)

Pieces(s, sep) ==
    [k \in 1..Cardinality({j \in 1..Len(s) : s[j] = sep}) + 1 |-> Piece(s, sep, k)]

\* C14: parse_commit_types gives one rule per ';'-separated segment, in
\* order; a segment TYPE or TYPE '=' NAMES gives the type TYPE and the
\* non-empty ','-separated names of NAMES in order (none when NAMES is empty
\* or absent); the empty text gives the empty rule set.
C14_ParseCommitTypes ==
    TypesReturned =>
        IF text = <<>> THEN commit_messages = <<>>
        ELSE LET segs == Pieces(text, ";") IN
             /\ Len(commit_messages) = Len(segs)
             /\ \A k \in 1..Len(segs) :
                    LET parts == Pieces(segs[k], "=") IN
                    Len(parts) <= 2 =>
                        /\ commit_messages[k].commit_type = parts[1]
                        /\ commit_messages[k].required =
                               IF Len(parts) = 1 THEN <<>>
                               ELSE SelectSeq(Pieces(parts[2], ","),
                                              LAMBDA x : x # <<>>)

C14_Witness ==
    /\ TypesReturned
    /\ Len(commit_messages) = 2
    /\ commit_messages[1].commit_type # <<>>
    /\ commit_messages[1].required # <<>>
    /\ commit_messages[2].commit_type # <<>>
    /\ commit_messages[2].required = <<>>

====
